---- MODULE Spec2Model ----
(***************************************************************************)
(* A model of Canticle's dependency walker (canticles/depwalker.go): the   *)
(* breadth-first DependencyWalker, the DependencyLoader (Fetch/Update)     *)
(* and DependencySaver (Snapshot) drivers that it runs, and the            *)
(* SourcesResolver that groups a dependency graph by repository.           *)
(*                                                                         *)
(* Import paths and file paths are Go strings.  They are modelled as       *)
(* tuples of byte values, so that sort.Strings (byte-wise lexicographic    *)
(* order) and path prefixes are computed and not assumed.                  *)
(***************************************************************************)
EXTENDS Integers, Sequences, FiniteSets, TLC

\* ------------------------------------------------------------------ bounds

\* Number of TraverseDependencies calls made on one walker with abstract
\* callbacks.
MaxCalls == 2
\* Number of TraverseDependencies calls made on one walker with the
\* fetch/update driver.
MaxLoaderCalls == 1
\* Handler calls recorded per TraverseDependencies call; the loop is not
\* explored beyond it.
MaxHandled == 5
\* Number of TraverseDependencies calls made on one walker with the
\* snapshot driver.
MaxSaverCalls == 1
\* Number of imports the package reader reports for one directory to the
\* snapshot driver.
MaxImports == 1
\* Number of declared dependencies of a loader.
MaxDeclared == 2
\* Number of FetchUpdatePackage calls made on one loader directly.
MaxFetchCalls == 2

\* The identifiers the environment names: "a", "a/b" and "b" as byte strings.
\* In Go's string order "a" < "a/b" < "b".
NodeA == <<97>>

NodeAB == <<97, 47, 98>>

NodeB == <<98>>

Nodes == {NodeA, NodeAB, NodeB}

\* ------------------------------------------------------------------ strings

RECURSIVE LexLess(_, _)
\* Go's < on strings: byte-wise lexicographic, a proper prefix is smaller.
LexLess(s, t) ==
    IF s = <<>> THEN t # <<>>
    ELSE IF t = <<>> THEN FALSE
    ELSE IF Head(s) < Head(t) THEN TRUE
    ELSE IF Head(s) > Head(t) THEN FALSE
    ELSE LexLess(Tail(s), Tail(t))

RECURSIVE InsertSorted(_, _)
InsertSorted(x, sorted) ==
    IF sorted = <<>> THEN <<x>>
    ELSE IF LexLess(x, Head(sorted)) THEN <<x>> \o sorted
    ELSE <<Head(sorted)>> \o InsertSorted(x, Tail(sorted))

RECURSIVE SortStrings(_)
\* sort.Strings: the same elements in increasing order.
SortStrings(seq) ==
    IF seq = <<>> THEN <<>>
    ELSE InsertSorted(Head(seq), SortStrings(Tail(seq)))

\* Every order in which a reader may return the set S as a slice.
Slices(S) ==
    {f \in [1..Cardinality(S) -> S] : \A i, j \in 1..Cardinality(S) : f[i] = f[j] => i = j}

Range(seq) == {seq[i] : i \in 1..Len(seq)}

Count(seq, x) == Cardinality({i \in 1..Len(seq) : seq[i] = x})

\* ------------------------------------------------------------------ errors

\* An error value: kind names what failed, pkg is the package named in the
\* message, at is the node at which the underlying failure happened.
NoError == [kind |-> "nil", pkg |-> <<>>, at |-> <<>>]

ErrorSkip == [kind |-> "skip", pkg |-> <<>>, at |-> <<>>]

\* The error an abstract handler returns for node p.
HandlerError(p) == [kind |-> "handler", pkg |-> <<>>, at |-> p]

\* The error an abstract reader returns for node p.
ReaderError(p) == [kind |-> "reader", pkg |-> <<>>, at |-> p]

\* fmt.Errorf("cant read deps of package %s with error %s", pkg, err.Error())
CantReadDeps(pkg, p, err) == [kind |-> "cantReadDeps", pkg |-> pkg, at |-> err.at]

\* fmt.Errorf("cant fetch pkg for path %s is a file not a directory", path)
NotADirectory(path, p) == [kind |-> "notADirectory", pkg |-> path, at |-> p]

\* fmt.Errorf("%s version control %s", pkg, err.Error())
VersionControlError(p) == [kind |-> "versionControl", pkg |-> p, at |-> p]

\* fmt.Errorf("cant fetch package %s %s", pkg, err.Error())
CantFetch(p) == [kind |-> "cantFetch", pkg |-> p, at |-> p]

\* fmt.Errorf("package %s couldn't read deps %s", pkg, err.Error())
CouldntReadDeps(p) == [kind |-> "couldntReadDeps", pkg |-> p, at |-> p]

\* fmt.Errorf("no dep for %s, should not be requested", pkg)
NoDep(p) == [kind |-> "noDep", pkg |-> p, at |-> p]

\* ------------------------------------------------------------------ state

VARIABLES
    nodeQueue,   \* dw.nodeQueue
    visited,     \* dw.visited: the keys mapped to true
    pc,          \* "idle" before the first call, "running" inside the loop, "done" after a return
    pkg,         \* the argument of the current TraverseDependencies call
    ret,         \* the value the last call returned
    calls,       \* number of TraverseDependencies calls started
    handled,     \* handler calls of the current call, in order
    reads,       \* reader calls of the current call, in order
    children,    \* what the reader returned last, before sorting
    enqueued,    \* what the last loop iteration appended to the queue
    lastErr,     \* what the handler returned last
    handleCount, \* per node: handler calls over all calls on this walker
    queue0,      \* the queue when the current call entered its loop
    visited0,    \* the visited set when the current call entered its loop
    hOut,        \* the abstract handler: its outcome per node, once known
    rOut,        \* the abstract reader: its result per node, once known
    deps,        \* dl.deps: the accumulated Dependencies
    disk,        \* per file path: what os.Stat finds there, once known
    pkgSrc,      \* per file path: what the package reader (readDeps) finds there, once known
    ops,         \* the external operations of the last FetchUpdatePackage call, in order
    cdeps,       \* dl.cdeps: the declared dependencies, in order
    hint,        \* the declared dependency the last FetchUpdatePackage call passed to ResolveRepo, if any
    noRecur,     \* ds.NoRecur
    graph,       \* the Dependencies given to ResolveSources
    repos,       \* the import paths that are roots of version-control repositories
    rootPath,    \* sr.RootPath
    branches,    \* sr.Branches
    todo,        \* the entries of graph the range loop has not reached yet
    sources,     \* sources.Sources of the pass in progress
    rpc,         \* "idle" with no pass, "resolving" inside the loop, "returned" after it
    rret,        \* what ResolveSources returned
    vops,        \* the VCS queries of the last loop iteration and whether each succeeded
    rlast        \* the import path of the last loop iteration

walkerVars == <<nodeQueue, visited, pc, pkg, ret, calls, handled, reads, children,
                enqueued, lastErr, handleCount, queue0, visited0>>

envVars == <<hOut, rOut>>

loaderVars == <<deps, disk, pkgSrc, ops, cdeps, hint>>

saverVars == <<noRecur>>

resolverVars == <<graph, repos, rootPath, branches, todo, sources, rpc, rret, vops, rlast>>

driverVars == <<saverVars, resolverVars>>

vars == <<walkerVars, envVars, loaderVars, driverVars>>

Unknown == [st |-> "unknown", kids |-> {}]

ReadFails == [st |-> "fail", kids |-> {}]

ReadOk(S) == [st |-> "ok", kids |-> S]

\* ------------------------------------------------------------------ walker

\* NewDependencyWalker
NewDependencyWalker ==
    /\ nodeQueue = <<>>
    /\ visited = {}

\* The children loop of TraverseDependencies: after sort.Strings, every child
\* not in visited is appended.
RECURSIVE AppendUnvisited(_, _, _)
AppendUnvisited(queue, vis, sorted) ==
    IF sorted = <<>> THEN queue
    ELSE AppendUnvisited(IF Head(sorted) \in vis THEN queue ELSE Append(queue, Head(sorted)),
                         vis, Tail(sorted))

\* Mutant: the children are appended in the order the reader returned them.
EnqueueChildrenUnsorted(queue, vis, kids) == AppendUnvisited(queue, vis, kids)

EnqueueChildren(queue, vis, kids) == AppendUnvisited(queue, vis, SortStrings(kids))

\* The error returned when readPackage fails for node p in a call started
\* with pkg.
ReadFailure(startPkg, p, err) == CantReadDeps(startPkg, p, err)

\* Mutant: ErrorSkip is not recognised and the children are read.
HandlerVerdictSkipReads(err) ==
    IF err # NoError /\ err # ErrorSkip THEN "return" ELSE "read"

\* Mutant: every error of the handler only skips the node.
HandlerVerdictNoAbort(err) ==
    IF err # NoError THEN "continue" ELSE "read"

\* The switch on the handler's error: what the loop does next.
HandlerVerdict(err) ==
    IF err = ErrorSkip THEN "continue"
    ELSE IF err # NoError THEN "return"
    ELSE "read"

\* Mutant: the dequeued node is not marked.
MarkVisitedNot(vis, p) == vis

\* The set marked when p is dequeued.
MarkVisited(vis, p) == vis \cup {p}

\* One iteration of the loop of TraverseDependencies for the dequeued node
\* p = queue[0], given what handleDep returned and, when it is called, what
\* readPackage returned (rd.err, rd.kids).  The result: the new queue and
\* visited set, whether readPackage was called, whether the call returned,
\* and with what.
Iteration(queue, vis, startPkg, herr, rd) ==
    LET p == Head(queue)
        rest == Tail(queue)
        vis1 == MarkVisited(vis, p)
        verdict == HandlerVerdict(herr)
        q1 == IF verdict = "read" /\ rd.err = NoError
              THEN EnqueueChildren(rest, vis1, rd.kids)
              ELSE rest
        failed == verdict = "return" \/ (verdict = "read" /\ rd.err # NoError)
    IN  [queue |-> q1,
         visited |-> vis1,
         read |-> verdict = "read",
         returned |-> failed \/ q1 = <<>>,
         ret |-> IF verdict = "return" THEN herr
                 ELSE IF verdict = "read" /\ rd.err # NoError
                      THEN ReadFailure(startPkg, p, rd.err)
                      ELSE NoError]

\* The walker's variables after one iteration with the given callbacks' results.
WalkerStep(herr, rd) ==
    LET p == Head(nodeQueue)
        it == Iteration(nodeQueue, visited, pkg, herr, rd)
    IN  /\ pc = "running"
        /\ nodeQueue # <<>>
        /\ Len(handled) < MaxHandled
        /\ nodeQueue' = it.queue
        /\ visited' = it.visited
        /\ pc' = IF it.returned THEN "done" ELSE "running"
        /\ ret' = it.ret
        /\ handled' = Append(handled, p)
        /\ handleCount' = [handleCount EXCEPT ![p] = @ + 1]
        /\ reads' = IF it.read THEN Append(reads, p) ELSE reads
        /\ children' = IF it.read THEN rd.kids ELSE <<>>
        /\ enqueued' = SubSeq(it.queue, Len(nodeQueue), Len(it.queue))
        /\ lastErr' = herr
        /\ UNCHANGED <<pkg, calls, queue0, visited0>>

\* TraverseDependencies(start): the append before the loop.
WalkerCall(start) ==
    /\ pc \in {"idle", "done"}
    /\ nodeQueue' = Append(nodeQueue, start)
    /\ pkg' = start
    /\ pc' = "running"
    /\ ret' = NoError
    /\ calls' = calls + 1
    /\ handled' = <<>>
    /\ reads' = <<>>
    /\ children' = <<>>
    /\ enqueued' = <<>>
    /\ lastErr' = NoError
    /\ queue0' = nodeQueue'
    /\ visited0' = visited
    /\ UNCHANGED <<visited, handleCount>>

\* ------------------------------------------------------------------ dependency graph model

\* NewDependency(importPath): a record with empty sets and no error.
NewDependency(ip) ==
    [ImportPath |-> ip, Imports |-> {}, ImportedFrom |-> {}, Err |-> NoError]

\* NewDependencies(): the empty mapping from import path to Dependency.
NewDependencies == [ip \in {} |-> NewDependency(ip)]

\* Dependencies.AddDependency: insert, or merge Imports and ImportedFrom into
\* the record already stored for the import path.
AddDependency(d, dep) ==
    IF dep.ImportPath \in DOMAIN d
    THEN [d EXCEPT ![dep.ImportPath] =
            [@ EXCEPT !.Imports = @ \cup dep.Imports,
                      !.ImportedFrom = @ \cup dep.ImportedFrom]]
    ELSE [ip \in DOMAIN d \cup {dep.ImportPath} |->
            IF ip = dep.ImportPath THEN dep ELSE d[ip]]

RECURSIVE AddDependencies(_, _, _)
\* Dependencies.AddDependencies: AddDependency for every element of more, in
\* the order the map is ranged over.
AddDependencies(d, more, order) ==
    IF order = <<>> THEN d
    ELSE AddDependencies(AddDependency(d, more[Head(order)]), more, Tail(order))

\* PackageSource(gopath, pkg): the directory of pkg under the workspace.
PackageSource(gopath, ip) ==
    IF ip = <<>> THEN gopath \o <<47, 115, 114, 99>>
    ELSE gopath \o <<47, 115, 114, 99, 47>> \o ip

\* strings.HasPrefix
HasPrefix(s, prefix) == Len(prefix) <= Len(s) /\ SubSeq(s, 1, Len(prefix)) = prefix

\* PathIsChild(parent, child): child is parent or a path below it.
PathIsChild(parent, child) == child = parent \/ HasPrefix(child, parent \o <<47>>)

\* PackageName(gopath, path): the import path of a directory of the
\* workspace, the inverse of PackageSource; no import path can be derived
\* for a path outside the workspace's src directory.
PackageName(gopath, path) ==
    LET src == PackageSource(gopath, <<>>)
    IN  IF path = src THEN [ok |-> TRUE, name |-> <<>>]
        ELSE IF HasPrefix(path, src \o <<47>>)
             THEN [ok |-> TRUE, name |-> SubSeq(path, Len(src) + 2, Len(path))]
             ELSE [ok |-> FALSE, name |-> <<>>]

\* ------------------------------------------------------------------ fetch/update driver

\* dl.gopath: "/g".
Gopath == <<47, 103>>

Paths == {PackageSource(Gopath, n) : n \in Nodes}

\* What os.Stat can find at a path: a directory, a plain file, nothing
\* (os.IsNotExist), or another error.
StatKinds == {"dir", "file", "missing", "staterr"}

\* NewDependencyLoader
NewDependencyLoader == deps = NewDependencies

\* Mutant: a plain file passes for a package on disk.
StatVerdictFileOk(st) ==
    IF st = "missing" THEN "fetch" ELSE "read"

\* The switch on os.Stat's result: fetch when nothing is there, fail on a
\* plain file, otherwise (a directory, or a stat error, which is dropped)
\* read the package where it is.
StatVerdict(st) ==
    IF st = "missing" THEN "fetch"
    ELSE IF st = "staterr" THEN "read"
    ELSE IF st = "file" THEN "fail"
    ELSE "read"

\* Mutant: the package's own record replaces the one stored for its path.
RecordPackageReplacing(d, p, found, order) ==
    LET marked == [ip \in DOMAIN found |-> [found[ip] EXCEPT !.ImportedFrom = @ \cup {p}]]
        d1 == AddDependencies(d, marked, order)
        dep == [NewDependency(p) EXCEPT !.Imports = {marked[ip].ImportPath : ip \in DOMAIN marked}]
    IN  [ip \in DOMAIN d1 \cup {p} |-> IF ip = p THEN dep ELSE d1[ip]]

\* Mutant: the package's own record is not added.
RecordPackageForgetsSelf(d, p, found, order) ==
    LET marked == [ip \in DOMAIN found |-> [found[ip] EXCEPT !.ImportedFrom = @ \cup {p}]]
    IN  AddDependencies(d, marked, order)

\* "Setup our deps" of FetchUpdatePackage: the Dependencies after the deps
\* read for p (found) are marked as imported from p and added, and p's own
\* record, importing them, is added.
RecordPackage(d, p, found, order) ==
    LET marked == [ip \in DOMAIN found |-> [found[ip] EXCEPT !.ImportedFrom = @ \cup {p}]]
        d1 == AddDependencies(d, marked, order)
        dep == [NewDependency(p) EXCEPT !.Imports = {marked[ip].ImportPath : ip \in DOMAIN marked}]
    IN  AddDependency(d1, dep)

\* Mutant: the last declared dependency whose Root contains p.
cdepForPkgLast(cd, p) ==
    LET hits == {i \in 1..Len(cd) : PathIsChild(cd[i].Root, p)}
    IN  IF hits = {} THEN <<>>
        ELSE <<cd[CHOOSE i \in hits : \A j \in hits : j <= i]>>

RECURSIVE cdepForPkg(_, _)
\* cdepForPkg(p) over the declared dependencies cd: the first whose Root
\* contains p, as a one-element sequence, or <<>> for nil.
cdepForPkg(cd, p) ==
    IF cd = <<>> THEN <<>>
    ELSE IF PathIsChild(Head(cd).Root, p) THEN <<Head(cd)>>
    ELSE cdepForPkg(Tail(cd), p)

\* The declared dependency cdepForPkg finds is a hint passed to ResolveRepo
\* and fetchPackage, whose success is an input here.
\* FetchUpdatePackage(p) on the Dependencies d, given what os.Stat finds at
\* p's path (st), whether ResolveRepo and vcs.Create succeed, what readDeps
\* returns (rd.err, rd.deps) and the order its result is ranged over.  The
\* result: the error returned, the Dependencies afterwards, the external
\* operations performed and whether the repository was created.
FetchUpdatePackage(d, p, st, resolveOk, createOk, rd, order) ==
    LET path == PackageSource(Gopath, p)
        verdict == StatVerdict(st)
        fetchOps == IF verdict # "fetch" THEN <<"stat">>
                    ELSE IF ~resolveOk THEN <<"stat", "resolve">>
                    ELSE <<"stat", "resolve", "create">>
        cdep == IF verdict = "fetch" THEN cdepForPkg(cdeps, p) ELSE <<>>
        stop(err, o, made) ==
            [err |-> err, deps |-> d, ops |-> o, created |-> made, hint |-> cdep]
    IN  IF verdict = "fail" THEN stop(NotADirectory(path, p), fetchOps, FALSE)
        ELSE IF verdict = "fetch" /\ ~resolveOk THEN stop(VersionControlError(p), fetchOps, FALSE)
        ELSE IF verdict = "fetch" /\ ~createOk THEN stop(CantFetch(p), fetchOps, FALSE)
        ELSE IF rd.err # NoError
             THEN stop(CouldntReadDeps(p), Append(fetchOps, "readDeps"), verdict = "fetch")
             ELSE [err |-> NoError,
                   deps |-> RecordPackage(d, p, rd.deps, order),
                   ops |-> Append(fetchOps, "readDeps"),
                   created |-> verdict = "fetch",
                   hint |-> cdep]

\* PackageImports(p): the Imports recorded for p, or an error when p has no
\* record.
PackageImports(d, p) ==
    IF p \notin DOMAIN d THEN [err |-> NoDep(p), imports |-> {}]
    ELSE [err |-> NoError, imports |-> d[p].Imports]

\* No snapshot driver has been built.
SaverIdle == noRecur = {}

\* No ResolveSources pass is made.
ResolverIdle ==
    /\ graph = NewDependencies
    /\ repos = {}
    /\ rootPath = <<>>
    /\ branches = FALSE
    /\ todo = {}
    /\ sources = <<>>
    /\ rpc = "idle"
    /\ rret = [err |-> NoError, sources |-> <<>>]
    /\ vops = <<>>
    /\ rlast = <<>>

LoaderIdle ==
    /\ NewDependencyLoader
    /\ disk = [f \in Paths |-> "unknown"]
    /\ pkgSrc = [f \in Paths |-> Unknown]
    /\ ops = <<>>
    /\ cdeps = <<>>
    /\ hint = <<>>

\* ------------------------------------------------------------------ the walker with abstract callbacks

\* The abstract callbacks are functions of the node: the answer for a node is
\* drawn when the node is first handled (read) and is the same afterwards.
HandlerOutcomes(p) == IF hOut[p] = "unknown" THEN {"ok", "skip", "err"} ELSE {hOut[p]}

ReaderResults(p) ==
    IF rOut[p] = Unknown
    THEN {ReadFails} \cup {ReadOk(S) : S \in SUBSET Nodes}
    ELSE {rOut[p]}

NoRead == [err |-> NoError, kids |-> <<>>]

InitWalker ==
    /\ NewDependencyWalker
    /\ pc = "idle"
    /\ pkg = <<>>
    /\ ret = NoError
    /\ calls = 0
    /\ handled = <<>>
    /\ reads = <<>>
    /\ children = <<>>
    /\ enqueued = <<>>
    /\ lastErr = NoError
    /\ handleCount = [n \in Nodes |-> 0]
    /\ queue0 = <<>>
    /\ visited0 = {}
    /\ hOut = [n \in Nodes |-> "unknown"]
    /\ rOut = [n \in Nodes |-> Unknown]
    /\ LoaderIdle
    /\ SaverIdle
    /\ ResolverIdle

Traverse ==
    \E start \in Nodes :
        /\ calls < MaxCalls
        /\ WalkerCall(start)
        /\ UNCHANGED <<envVars, loaderVars, driverVars>>

\* handleDep returns ErrorSkip.
StepSkip ==
    /\ pc = "running"
    /\ "skip" \in HandlerOutcomes(Head(nodeQueue))
    /\ hOut' = [hOut EXCEPT ![Head(nodeQueue)] = "skip"]
    /\ WalkerStep(ErrorSkip, NoRead)
    /\ UNCHANGED <<rOut, loaderVars, driverVars>>

\* handleDep returns another error.
StepHandlerError ==
    /\ pc = "running"
    /\ "err" \in HandlerOutcomes(Head(nodeQueue))
    /\ hOut' = [hOut EXCEPT ![Head(nodeQueue)] = "err"]
    /\ WalkerStep(HandlerError(Head(nodeQueue)), NoRead)
    /\ UNCHANGED <<rOut, loaderVars, driverVars>>

\* handleDep returns nil and readPackage fails.
StepReadError ==
    /\ pc = "running"
    /\ "ok" \in HandlerOutcomes(Head(nodeQueue))
    /\ ReadFails \in ReaderResults(Head(nodeQueue))
    /\ hOut' = [hOut EXCEPT ![Head(nodeQueue)] = "ok"]
    /\ rOut' = [rOut EXCEPT ![Head(nodeQueue)] = ReadFails]
    /\ WalkerStep(NoError, [err |-> ReaderError(Head(nodeQueue)), kids |-> <<>>])
    /\ UNCHANGED <<loaderVars, driverVars>>

\* handleDep returns nil and readPackage returns the children, in any order.
StepExpand ==
    /\ pc = "running"
    /\ "ok" \in HandlerOutcomes(Head(nodeQueue))
    /\ \E r \in ReaderResults(Head(nodeQueue)) :
        /\ r.st = "ok"
        /\ hOut' = [hOut EXCEPT ![Head(nodeQueue)] = "ok"]
        /\ rOut' = [rOut EXCEPT ![Head(nodeQueue)] = r]
        /\ \E slice \in Slices(r.kids) :
            WalkerStep(NoError, [err |-> NoError, kids |-> slice])
    /\ UNCHANGED <<loaderVars, driverVars>>

NextWalker ==
    \/ Traverse
    \/ StepSkip
    \/ StepHandlerError
    \/ StepReadError
    \/ StepExpand

SpecWalker == InitWalker /\ [][NextWalker]_vars

\* ------------------------------------------------------------------ the walker with the fetch/update driver

\* The file system and the package reader answer the same for a path each
\* time, except that a created repository is a directory afterwards.
StatResults(path) == IF disk[path] = "unknown" THEN StatKinds ELSE {disk[path]}

PkgReaderResults(path) ==
    IF pkgSrc[path] = Unknown
    THEN {ReadFails} \cup {ReadOk(S) : S \in SUBSET Nodes}
    ELSE {pkgSrc[path]}

\* What readDeps returns when the package reader finds r: a fresh Dependency
\* per import, or an error.
ReadDepsResult(r) ==
    IF r.st = "ok"
    THEN [err |-> NoError, deps |-> [ip \in r.kids |-> NewDependency(ip)]]
    ELSE [err |-> ReaderError(<<>>), deps |-> NewDependencies]

InitLoader ==
    /\ NewDependencyWalker
    /\ pc = "idle"
    /\ pkg = <<>>
    /\ ret = NoError
    /\ calls = 0
    /\ handled = <<>>
    /\ reads = <<>>
    /\ children = <<>>
    /\ enqueued = <<>>
    /\ lastErr = NoError
    /\ handleCount = [n \in Nodes |-> 0]
    /\ queue0 = <<>>
    /\ visited0 = {}
    /\ hOut = [n \in Nodes |-> "unknown"]
    /\ rOut = [n \in Nodes |-> Unknown]
    /\ LoaderIdle
    /\ SaverIdle
    /\ ResolverIdle

\* One loop iteration of the walker built with handler FetchUpdatePackage
\* and reader PackageImports, for the given answers of the file system, the
\* resolver and the package reader; slice is the order of Imports.Array().
LoaderStep(st, resolveOk, createOk, r, order, slice) ==
    LET p == Head(nodeQueue)
        path == PackageSource(Gopath, p)
        h == FetchUpdatePackage(deps, p, st, resolveOk, createOk, ReadDepsResult(r), order)
        rd == PackageImports(h.deps, p)
    IN  /\ deps' = h.deps
        /\ ops' = h.ops
        /\ hint' = h.hint
        /\ disk' = [disk EXCEPT ![path] = IF h.created THEN "dir" ELSE st]
        /\ pkgSrc' = IF "readDeps" \in Range(h.ops) THEN [pkgSrc EXCEPT ![path] = r] ELSE pkgSrc
        /\ WalkerStep(h.err, [err |-> rd.err, kids |-> slice])
        /\ UNCHANGED <<envVars, driverVars, cdeps>>

LoaderTraverse ==
    \E start \in Nodes :
        /\ calls < MaxLoaderCalls
        /\ WalkerCall(start)
        /\ UNCHANGED <<envVars, loaderVars, driverVars>>

\* The path of the dequeued node is a plain file.
StepNotADirectory ==
    /\ pc = "running"
    /\ LET path == PackageSource(Gopath, Head(nodeQueue))
       IN  /\ "file" \in StatResults(path)
           /\ LoaderStep("file", TRUE, TRUE, pkgSrc[path], <<>>, <<>>)

\* Nothing is at the path of the dequeued node and ResolveRepo or vcs.Create
\* fails.
StepFetchFails ==
    /\ pc = "running"
    /\ LET path == PackageSource(Gopath, Head(nodeQueue))
       IN  /\ "missing" \in StatResults(path)
           /\ \E resolveOk \in BOOLEAN :
                LoaderStep("missing", resolveOk, FALSE, pkgSrc[path], <<>>, <<>>)

\* The package is on disk, or has been fetched, and readDeps fails.
StepReadDepsFails ==
    /\ pc = "running"
    /\ LET path == PackageSource(Gopath, Head(nodeQueue))
       IN  /\ ReadFails \in PkgReaderResults(path)
           /\ \E st \in StatResults(path) \ {"file"} :
                LoaderStep(st, TRUE, TRUE, ReadFails, <<>>, <<>>)

\* FetchUpdatePackage returns nil and PackageImports is called.
StepFetchUpdate ==
    /\ pc = "running"
    /\ LET p == Head(nodeQueue)
           path == PackageSource(Gopath, p)
       IN  \E st \in StatResults(path) \ {"file"}, r \in PkgReaderResults(path) \ {ReadFails} :
             \E order \in Slices(r.kids) :
               \E slice \in Slices(PackageImports(
                        FetchUpdatePackage(deps, p, st, TRUE, TRUE, ReadDepsResult(r), order).deps,
                        p).imports) :
                 LoaderStep(st, TRUE, TRUE, r, order, slice)

NextLoader ==
    \/ LoaderTraverse
    \/ StepNotADirectory
    \/ StepFetchFails
    \/ StepReadDepsFails
    \/ StepFetchUpdate

SpecLoader == InitLoader /\ [][NextLoader]_vars

\* ------------------------------------------------------------------ the fetch/update handler on its own

\* The declared dependencies a loader is built with: up to MaxDeclared
\* roots, no root twice.
DeclaredLists ==
    {cd \in UNION {[1..n -> {[Root |-> r] : r \in Nodes}] : n \in 0..MaxDeclared} :
        \A i, j \in 1..Len(cd) : cd[i] = cd[j] => i = j}

\* A loader with declared dependencies, in a workspace where os.Stat's
\* answer for every package is settled.
InitFetch ==
    /\ NewDependencyWalker
    /\ pc = "idle"
    /\ pkg = <<>>
    /\ ret = NoError
    /\ calls = 0
    /\ handled = <<>>
    /\ reads = <<>>
    /\ children = <<>>
    /\ enqueued = <<>>
    /\ lastErr = NoError
    /\ handleCount = [n \in Nodes |-> 0]
    /\ queue0 = <<>>
    /\ visited0 = {}
    /\ hOut = [n \in Nodes |-> "unknown"]
    /\ rOut = [n \in Nodes |-> Unknown]
    /\ NewDependencyLoader
    /\ disk \in [Paths -> StatKinds]
    /\ pkgSrc = [f \in Paths |-> Unknown]
    /\ ops = <<>>
    /\ cdeps \in DeclaredLists
    /\ hint = <<>>
    /\ SaverIdle
    /\ ResolverIdle

\* The answers of the package reader: a failure, or up to MaxImports imports.
FetchReads(path) ==
    IF pkgSrc[path] = Unknown
    THEN {ReadFails} \cup {ReadOk(S) : S \in {T \in SUBSET Nodes : Cardinality(T) <= MaxImports}}
    ELSE {pkgSrc[path]}

\* FetchUpdatePackage(p) called for any package; handled and lastErr log
\* the calls and the last result.
FetchCall ==
    \E p \in Nodes :
        LET path == PackageSource(Gopath, p)
        IN  /\ Len(handled) < MaxFetchCalls
            /\ \E st \in StatResults(path) :
                \E resolveOk \in (IF st = "missing" THEN BOOLEAN ELSE {TRUE}) :
                 \E createOk \in (IF st = "missing" /\ resolveOk THEN BOOLEAN ELSE {TRUE}) :
                  \E r \in (IF st # "file" /\ resolveOk /\ createOk
                            THEN FetchReads(path) ELSE {pkgSrc[path]}) :
                   \E order \in Slices(r.kids) :
                    LET h == FetchUpdatePackage(deps, p, st, resolveOk, createOk,
                                                ReadDepsResult(r), order)
                    IN  /\ deps' = h.deps
                        /\ ops' = h.ops
                        /\ hint' = h.hint
                        /\ disk' = [disk EXCEPT ![path] = IF h.created THEN "dir" ELSE st]
                        /\ pkgSrc' = IF "readDeps" \in Range(h.ops)
                                     THEN [pkgSrc EXCEPT ![path] = r] ELSE pkgSrc
                        /\ handled' = Append(handled, p)
                        /\ lastErr' = h.err
            /\ UNCHANGED <<nodeQueue, visited, pc, pkg, ret, calls, reads, children,
                           enqueued, handleCount, queue0, visited0>>
            /\ UNCHANGED <<envVars, driverVars, cdeps>>

NextFetch == FetchCall

SpecFetch == InitFetch /\ [][NextFetch]_vars

\* ------------------------------------------------------------------ package errors

\* The error values a package reader returns: a *PackageError, or an error
\* of another type, with its text.
PackageError(text) == [type |-> "PackageError", Err |-> text]

OtherError(text) == [type |-> "error", Err |-> text]

\* "no buildable Go"
NoBuildableGo == <<110, 111, 32, 98, 117, 105, 108, 100, 97, 98, 108, 101, 32, 71, 111>>

\* Mutant: no error is recognised as "no buildable".
IsNoBuildableNever(pe) == FALSE

\* PackageError.IsNoBuildable
IsNoBuildable(pe) == HasPrefix(pe.Err, NoBuildableGo)

\* fmt.Errorf("Error getting package name for path %s", path)
ErrGettingPackageName(path) == [kind |-> "gettingPackageName", pkg |-> <<>>, at |-> path]

\* The error PackageName itself returns.
PackageNameError(path) == [kind |-> "packageName", pkg |-> <<>>, at |-> path]

\* fmt.Errorf("cant save deps for path %s is a file not a directory", path)
IsAFile(path) == [kind |-> "isAFile", pkg |-> <<>>, at |-> path]

\* fmt.Errorf("cant save deps for path %s could not be found on disk", path)
NotFoundOnDisk(path) == [kind |-> "notFoundOnDisk", pkg |-> <<>>, at |-> path]

\* fmt.Errorf("cant save deps for path %s due to %s", path, err.Error())
StatFailed(path) == [kind |-> "statFailed", pkg |-> <<>>, at |-> path]

\* fmt.Errorf("cant read deps for package %s %s", pkg, err.Error())
CantReadPkgDeps(p, err) == [kind |-> "cantReadPkgDeps", pkg |-> err.Err, at |-> p]

\* The error VisibleSubDirectories returns.
ListingError(path) == [kind |-> "listing", pkg |-> <<>>, at |-> path]

\* ------------------------------------------------------------------ snapshot driver

\* ds.root: the project is package a of the workspace.
SaveRoot == PackageSource(Gopath, NodeA)

\* The bare src directory of the workspace.
SrcDir == PackageSource(Gopath, <<>>)

\* A directory outside the workspace: "/x".
Outside == <<47, 120>>

\* The file paths a snapshot traversal can be given or can find.
SaverPaths == Paths \cup {SrcDir, Outside}

\* NewDependencySaver
NewDependencySaver == deps = NewDependencies /\ noRecur = {}

\* The switch on os.Stat's result in SavePackageDeps: the error to record.
SaveStatError(st, path) ==
    IF st = "file" THEN IsAFile(path)
    ELSE IF st = "missing" THEN NotFoundOnDisk(path)
    ELSE IF st = "staterr" THEN StatFailed(path)
    ELSE NoError

\* A placeholder for p carrying err, added to the Dependencies d.
RecordFailure(d, p, err) == AddDependency(d, [NewDependency(p) EXCEPT !.Err = err])

\* SavePackageDeps(path) on the Dependencies d, given what os.Stat finds at
\* path (st), what the package reader returns (rd.deps, rd.err) and the
\* order its result is ranged over.  The result: the error returned, the
\* Dependencies afterwards and the external operations performed.
SavePackageDeps(d, path, st, rd, order) ==
    LET pn == PackageName(Gopath, path)
        p == pn.name
        serr == SaveStatError(st, path)
    IN  IF ~pn.ok
        THEN [err |-> ErrGettingPackageName(path), deps |-> d, ops |-> <<>>]
        ELSE IF serr # NoError
        THEN [err |-> ErrorSkip, deps |-> RecordFailure(d, p, serr), ops |-> <<"stat">>]
        ELSE IF path = PackageSource(Gopath, <<>>)
        THEN [err |-> NoError, deps |-> d, ops |-> <<"stat">>]
        ELSE IF DOMAIN rd.deps = {} /\ rd.err # NoError
        THEN IF rd.err.type = "PackageError" /\ IsNoBuildable(rd.err)
             THEN [err |-> NoError, deps |-> d, ops |-> <<"stat", "read">>]
             ELSE [err |-> NoError,
                   deps |-> RecordFailure(d, p, CantReadPkgDeps(p, rd.err)),
                   ops |-> <<"stat", "read">>]
        ELSE [err |-> NoError,
              deps |-> RecordPackage(d, p, rd.deps, order),
              ops |-> <<"stat", "read">>]

\* PackagePaths(path) on the Dependencies d, given what
\* VisibleSubDirectories returns (ls.err, ls.dirs) and ds.NoRecur (nr): the
\* error returned and the set of paths, before Array() orders it.
PackagePaths(d, path, ls, nr) ==
    LET inRoot == PathIsChild(SaveRoot, path)
        subdirs == IF inRoot THEN ls.dirs ELSE {}
        paths == subdirs \ nr
        pn == PackageName(Gopath, path)
    IN  IF inRoot /\ ls.err # NoError THEN [err |-> ls.err, paths |-> {}]
        ELSE IF ~pn.ok THEN [err |-> PackageNameError(path), paths |-> {}]
        ELSE IF pn.name \notin DOMAIN d THEN [err |-> NoError, paths |-> paths]
        ELSE IF d[pn.name].Err # NoError THEN [err |-> NoError, paths |-> {}]
        ELSE [err |-> NoError,
              paths |-> paths \cup {PackageSource(Gopath, imp) : imp \in d[pn.name].Imports}]

\* ------------------------------------------------------------------ the walker with the snapshot driver

\* What the package reader can return with its imports: no error, a
\* *PackageError for "no buildable Go source files", a *PackageError with
\* another text, or an error of another type.  With imports, the error
\* only has to be nil or not.
ReadKinds(S) == IF S = {} THEN {"ok", "noBuildable", "pkgError", "error"}
                ELSE {"ok", "noBuildable"}

ImportSets == {S \in SUBSET Nodes : Cardinality(S) <= MaxImports}

SaverReaderResults(path) ==
    IF pkgSrc[path] = Unknown
    THEN UNION {{[st |-> k, kids |-> S] : k \in ReadKinds(S)} : S \in ImportSets}
    ELSE {pkgSrc[path]}

\* What ds.read returns when the package reader finds r.  The text of the
\* second error is a proper prefix of "no buildable Go"; the third has the
\* text of a "no buildable" error and another type.
SaverReadResult(r) ==
    [deps |-> [ip \in r.kids |-> NewDependency(ip)],
     err |-> IF r.st = "ok" THEN NoError
             ELSE IF r.st = "noBuildable"
                  THEN PackageError(NoBuildableGo \o <<32, 115, 111, 117, 114, 99, 101>>)
             ELSE IF r.st = "pkgError"
                  THEN PackageError(SubSeq(NoBuildableGo, 1, 12))
             ELSE OtherError(NoBuildableGo)]

\* The paths of the model directly below path.
SubPaths(path) ==
    {c \in SaverPaths :
        /\ HasPrefix(c, path \o <<47>>)
        /\ \A i \in (Len(path) + 2)..Len(c) : c[i] # 47}

\* VisibleSubDirectories(path) lists the entries below path that are
\* directories; what is found below path is what os.Stat finds there later.
Listings(path) ==
    {[err |-> NoError, kinds |-> k, dirs |-> {c \in SubPaths(path) : k[c] = "dir"}] :
        k \in {f \in [SubPaths(path) -> StatKinds] : \A c \in SubPaths(path) : f[c] \in StatResults(c)}}

ListingFailed(path) == [err |-> ListingError(path), kinds |-> [c \in {} |-> "dir"], dirs |-> {}]

NoListing == [err |-> NoError, kinds |-> [c \in {} |-> "dir"], dirs |-> {}]

InitSaver ==
    /\ NewDependencyWalker
    /\ pc = "idle"
    /\ pkg = <<>>
    /\ ret = NoError
    /\ calls = 0
    /\ handled = <<>>
    /\ reads = <<>>
    /\ children = <<>>
    /\ enqueued = <<>>
    /\ lastErr = NoError
    /\ handleCount = [n \in SaverPaths |-> 0]
    /\ queue0 = <<>>
    /\ visited0 = {}
    /\ hOut = [n \in Nodes |-> "unknown"]
    /\ rOut = [n \in Nodes |-> Unknown]
    /\ deps = NewDependencies
    /\ disk = [f \in SaverPaths |-> "unknown"]
    /\ pkgSrc = [f \in SaverPaths |-> Unknown]
    /\ ops = <<>>
    /\ cdeps = <<>>
    /\ hint = <<>>
    /\ noRecur \in {{}, {PackageSource(Gopath, NodeAB)}}
    /\ ResolverIdle

\* One loop iteration of the walker built with handler SavePackageDeps and
\* reader PackagePaths, for the given answers of the file system and the
\* package reader; slice is the order of paths.Array().
SaverStep(st, r, order, ls, slice) ==
    LET path == Head(nodeQueue)
        h == SavePackageDeps(deps, path, st, SaverReadResult(r), order)
        rd == PackagePaths(h.deps, path, ls, noRecur)
        listed == h.err = NoError /\ PathIsChild(SaveRoot, path) /\ ls.err = NoError
    IN  /\ deps' = h.deps
        /\ ops' = h.ops
        /\ disk' = [f \in DOMAIN disk |->
                      IF f = path /\ "stat" \in Range(h.ops) THEN st
                      ELSE IF listed /\ f \in DOMAIN ls.kinds THEN ls.kinds[f]
                      ELSE disk[f]]
        /\ pkgSrc' = IF "read" \in Range(h.ops) THEN [pkgSrc EXCEPT ![path] = r] ELSE pkgSrc
        /\ WalkerStep(h.err, [err |-> rd.err, kids |-> slice])
        /\ UNCHANGED <<envVars, driverVars, cdeps, hint>>

SaverTraverse ==
    \E start \in SaverPaths :
        /\ calls < MaxSaverCalls
        /\ WalkerCall(start)
        /\ UNCHANGED <<envVars, loaderVars, driverVars>>

\* PackageName fails for the dequeued path.
SaveNoName ==
    /\ pc = "running"
    /\ ~PackageName(Gopath, Head(nodeQueue)).ok
    /\ SaverStep("dir", pkgSrc[Head(nodeQueue)], <<>>, NoListing, <<>>)

\* The dequeued path is a file, is missing or cannot be stat'ed.
SaveSkip ==
    /\ pc = "running"
    /\ LET path == Head(nodeQueue)
       IN  /\ PackageName(Gopath, path).ok
           /\ \E st \in StatResults(path) \ {"dir"} :
                SaverStep(st, pkgSrc[path], <<>>, NoListing, <<>>)

\* The answers of the package reader for a directory; it is not asked about
\* the bare src directory.
SaveReads(path) == IF path = SrcDir THEN {pkgSrc[path]} ELSE SaverReaderResults(path)

\* SavePackageDeps returns nil and VisibleSubDirectories fails.
SaveListingFails ==
    /\ pc = "running"
    /\ LET path == Head(nodeQueue)
       IN  /\ PackageName(Gopath, path).ok
           /\ "dir" \in StatResults(path)
           /\ PathIsChild(SaveRoot, path)
           /\ \E r \in SaveReads(path) :
                \E order \in Slices(r.kids) :
                    SaverStep("dir", r, order, ListingFailed(path), <<>>)

\* SavePackageDeps returns nil and PackagePaths returns the children, in any
\* order.
SaveExpand ==
    /\ pc = "running"
    /\ LET path == Head(nodeQueue)
       IN  /\ PackageName(Gopath, path).ok
           /\ "dir" \in StatResults(path)
           /\ \E r \in SaveReads(path) :
                \E order \in Slices(r.kids) :
                  \E ls \in (IF PathIsChild(SaveRoot, path) THEN Listings(path) ELSE {NoListing}) :
                    \E slice \in Slices(PackagePaths(
                            SavePackageDeps(deps, path, "dir", SaverReadResult(r), order).deps,
                            path, ls, noRecur).paths) :
                        SaverStep("dir", r, order, ls, slice)

NextSaver ==
    \/ SaverTraverse
    \/ SaveNoName
    \/ SaveSkip
    \/ SaveListingFails
    \/ SaveExpand

SpecSaver == InitSaver /\ [][NextSaver]_vars

\* ------------------------------------------------------------------ source consolidation

\* "a/b/c"
NodeABC == <<97, 47, 98, 47, 99>>

\* The import paths of the graphs given to ResolveSources.
ImportPaths == Nodes \cup {NodeABC}

\* The repository an import path belongs to: the nearest root that is the
\* path or above it, or <<>> when it is in no repository.
RepoRoot(rs, ip) ==
    LET above == {r \in rs : PathIsChild(r, ip)}
    IN  IF above = {} THEN <<>>
        ELSE CHOOSE r \in above : \A q \in above : Len(q) <= Len(r)

\* The values a repository's handle reports.
Branch(root) == <<"branch", root>>

Rev(root) == <<"rev", root>>

Source(root) == <<"source", root>>

\* What the VCS answers for an import path: whether ResolveRepo succeeds,
\* the handle's GetRoot, and whether GetBranch, GetRev and GetSource succeed.
VcsAnswers(rs, ip) ==
    IF RepoRoot(rs, ip) = <<>>
    THEN {[ok |-> FALSE, root |-> <<>>, branchOk |-> FALSE, revOk |-> FALSE, sourceOk |-> FALSE]}
    ELSE {[ok |-> TRUE, root |-> RepoRoot(rs, ip), branchOk |-> b, revOk |-> r, sourceOk |-> s] :
            b \in BOOLEAN, r \in BOOLEAN, s \in BOOLEAN}

\* The answers when every query of the handle succeeds.
SoundAnswer(rs, ip) ==
    [ok |-> RepoRoot(rs, ip) # <<>>, root |-> RepoRoot(rs, ip),
     branchOk |-> TRUE, revOk |-> TRUE, sourceOk |-> TRUE]

\* fmt.Errorf("cant get revision from vcs at %s %s", root, err.Error())
CantGetRevision(root) == [kind |-> "cantGetRevision", pkg |-> <<>>, at |-> root]

\* fmt.Errorf("cant get vcs source from vcs at %s %s", root, err.Error())
CantGetSource(root) == [kind |-> "cantGetSource", pkg |-> <<>>, at |-> root]

\* NewDependencySource(root)
NewDependencySource(root) ==
    [Root |-> root, Deps |-> NewDependencies, Revisions |-> {}, OnDiskRevision |-> <<>>,
     Sources |-> {}, OnDiskSource |-> <<>>]

\* Mutant: the first source claims every dependency.
DepSourceAny(srcs, ip) == IF srcs = <<>> THEN 0 ELSE 1

\* DependencySources.DepSource: the position of the first source whose Root
\* is the import path or contains it, or 0 for nil.
DepSource(srcs, ip) ==
    LET hits == {i \in 1..Len(srcs) : srcs[i].Root = ip \/ PathIsChild(srcs[i].Root, ip)}
    IN  IF hits = {} THEN 0 ELSE CHOOSE i \in hits : \A j \in hits : i <= j

\* Mutant: no repository is taken for the project's own.
IsSaveLevelNever(gopath, root, rp) == FALSE

\* The repository rooted at root is at the save level: its directory is
\* sr.RootPath or contains it.
IsSaveLevel(gopath, root, rp) ==
    LET rootSrc == PackageSource(gopath, root)
    IN  rootSrc = rp \/ PathIsChild(rootSrc, rp)

\* Mutant: a dependency that cannot be resolved aborts the pass.
OutcomeResolveFatal(found, vcs, own, br) ==
    IF found THEN "added"
    ELSE IF ~vcs.ok THEN "fatalRev"
    ELSE IF own THEN "own"
    ELSE IF (~br \/ ~vcs.branchOk) /\ ~vcs.revOk THEN "fatalRev"
    ELSE IF ~vcs.sourceOk THEN "fatalSource"
    ELSE "new"

\* The way one loop iteration of ResolveSources ends: the dependency is
\* added to the source found for it, skipped because it cannot be
\* resolved, skipped because its repository is at the save level, the pass
\* is aborted by GetRev or by GetSource, or a new source is appended.
Outcome(found, vcs, own, br) ==
    IF found THEN "added"
    ELSE IF ~vcs.ok THEN "unresolved"
    ELSE IF own THEN "own"
    ELSE IF (~br \/ ~vcs.branchOk) /\ ~vcs.revOk THEN "fatalRev"
    ELSE IF ~vcs.sourceOk THEN "fatalSource"
    ELSE "new"

\* The VCS queries of one loop iteration, in order, each with its success.
Queries(found, vcs, own, br) ==
    IF found THEN <<>>
    ELSE IF ~vcs.ok THEN <<<<"ResolveRepo", FALSE>>>>
    ELSE IF own THEN <<<<"ResolveRepo", TRUE>>>>
    ELSE <<<<"ResolveRepo", TRUE>>>>
         \o (IF br THEN <<<<"GetBranch", vcs.branchOk>>>> ELSE <<>>)
         \o (IF ~br \/ ~vcs.branchOk THEN <<<<"GetRev", vcs.revOk>>>> ELSE <<>>)
         \o (IF (~br \/ ~vcs.branchOk) /\ ~vcs.revOk THEN <<>>
             ELSE <<<<"GetSource", vcs.sourceOk>>>>)

\* Mutant: the branch is never recorded, only the exact revision.
BuiltSourceRevOnly(dep, vcs, br) ==
    [NewDependencySource(vcs.root) EXCEPT
        !.Revisions = @ \cup {Rev(vcs.root)},
        !.OnDiskRevision = Rev(vcs.root),
        !.Sources = @ \cup {Source(vcs.root)},
        !.OnDiskSource = Source(vcs.root),
        !.Deps = AddDependency(@, dep)]

\* The source a loop iteration builds for the repository of dep.
BuiltSource(dep, vcs, br) ==
    LET rev == IF br /\ vcs.branchOk THEN Branch(vcs.root) ELSE Rev(vcs.root)
    IN  [NewDependencySource(vcs.root) EXCEPT
            !.Revisions = @ \cup {rev},
            !.OnDiskRevision = rev,
            !.Sources = @ \cup {Source(vcs.root)},
            !.OnDiskSource = Source(vcs.root),
            !.Deps = AddDependency(@, dep)]

\* One iteration of the loop of ResolveSources for the entry dep, given the
\* sources so far, the answers of the VCS, sr.RootPath and sr.Branches:
\* the sources afterwards, whether the function returns here, and the error.
ResolveOne(srcs, dep, vcs, rp, br) ==
    LET i == DepSource(srcs, dep.ImportPath)
        own == vcs.ok /\ IsSaveLevel(Gopath, vcs.root, rp)
        o == Outcome(i # 0, vcs, own, br)
    IN  IF o = "added"
        THEN [sources |-> [srcs EXCEPT ![i].Deps = AddDependency(@, dep)],
              returned |-> FALSE, err |-> NoError]
        ELSE IF o \in {"unresolved", "own"}
        THEN [sources |-> srcs, returned |-> FALSE, err |-> NoError]
        ELSE IF o = "fatalRev"
        THEN [sources |-> <<>>, returned |-> TRUE, err |-> CantGetRevision(vcs.root)]
        ELSE IF o = "fatalSource"
        THEN [sources |-> <<>>, returned |-> TRUE, err |-> CantGetSource(vcs.root)]
        ELSE [sources |-> Append(srcs, BuiltSource(dep, vcs, br)),
              returned |-> FALSE, err |-> NoError]

RECURSIVE ResolveAll(_, _, _, _, _, _)
\* ResolveSources(g) with the entries ranged over in the given order and
\* every query of a resolved handle succeeding: the sources returned.
ResolveAll(srcs, g, order, rs, rp, br) ==
    IF order = <<>> THEN srcs
    ELSE ResolveAll(ResolveOne(srcs, g[Head(order)], SoundAnswer(rs, Head(order)), rp, br).sources,
                    g, Tail(order), rs, rp, br)

\* A SourcesResolver for a project saved at b or at a/b, with or without
\* branches, in a workspace with any set of repositories.
InitResolver ==
    /\ NewDependencyWalker
    /\ pc = "idle"
    /\ pkg = <<>>
    /\ ret = NoError
    /\ calls = 0
    /\ handled = <<>>
    /\ reads = <<>>
    /\ children = <<>>
    /\ enqueued = <<>>
    /\ lastErr = NoError
    /\ handleCount = [n \in Nodes |-> 0]
    /\ queue0 = <<>>
    /\ visited0 = {}
    /\ hOut = [n \in Nodes |-> "unknown"]
    /\ rOut = [n \in Nodes |-> Unknown]
    /\ LoaderIdle
    /\ SaverIdle
    /\ graph = NewDependencies
    /\ repos \in SUBSET ImportPaths
    /\ rootPath \in {PackageSource(Gopath, NodeB), PackageSource(Gopath, NodeAB)}
    /\ branches \in BOOLEAN
    /\ todo = {}
    /\ sources = <<>>
    /\ rpc = "idle"
    /\ rret = [err |-> NoError, sources |-> <<>>]
    /\ vops = <<>>
    /\ rlast = <<>>

\* ResolveSources(deps): up to the range loop.
ResolveCall ==
    \E S \in SUBSET ImportPaths :
        /\ rpc = "idle"
        /\ graph' = [ip \in S |-> NewDependency(ip)]
        /\ todo' = S
        /\ sources' = <<>>
        /\ rpc' = IF S = {} THEN "returned" ELSE "resolving"
        /\ rret' = [err |-> NoError, sources |-> <<>>]
        /\ UNCHANGED <<repos, rootPath, branches, vops, rlast>>
        /\ UNCHANGED <<walkerVars, envVars, loaderVars, saverVars>>

\* One iteration of the range loop, for any entry not yet reached, and the
\* return after the last.
ResolveStep(ip, vcs) ==
    LET r == ResolveOne(sources, graph[ip], vcs, rootPath, branches)
        found == DepSource(sources, ip) # 0
        own == vcs.ok /\ IsSaveLevel(Gopath, vcs.root, rootPath)
    IN  /\ rpc = "resolving"
        /\ ip \in todo
        /\ todo' = todo \ {ip}
        /\ sources' = r.sources
        /\ rlast' = ip
        /\ vops' = Queries(found, vcs, own, branches)
        /\ rpc' = IF r.returned \/ todo' = {} THEN "returned" ELSE "resolving"
        /\ rret' = IF r.returned THEN [err |-> r.err, sources |-> <<>>]
                   ELSE IF todo' = {} THEN [err |-> NoError, sources |-> r.sources]
                   ELSE rret
        /\ UNCHANGED <<graph, repos, rootPath, branches>>
        /\ UNCHANGED <<walkerVars, envVars, loaderVars, saverVars>>

\* The way the iteration for ip ends with the answers vcs.
StepOutcome(ip, vcs) ==
    Outcome(DepSource(sources, ip) # 0, vcs,
            vcs.ok /\ IsSaveLevel(Gopath, vcs.root, rootPath), branches)

\* A source already claims the dependency.
ResolveAdded ==
    \E ip \in todo :
        /\ DepSource(sources, ip) # 0
        /\ ResolveStep(ip, SoundAnswer(repos, ip))

\* ResolveRepo fails.
ResolveUnresolved ==
    \E ip \in todo : \E vcs \in VcsAnswers(repos, ip) :
        /\ StepOutcome(ip, vcs) = "unresolved"
        /\ ResolveStep(ip, vcs)

\* The repository is at the save level.
ResolveOwn ==
    \E ip \in todo :
        /\ StepOutcome(ip, SoundAnswer(repos, ip)) = "own"
        /\ ResolveStep(ip, SoundAnswer(repos, ip))

\* GetRev or GetSource fails.
ResolveAborts ==
    \E ip \in todo : \E vcs \in VcsAnswers(repos, ip) :
        /\ StepOutcome(ip, vcs) \in {"fatalRev", "fatalSource"}
        /\ ResolveStep(ip, vcs)

\* A new source is appended.
ResolveNew ==
    \E ip \in todo : \E vcs \in VcsAnswers(repos, ip) :
        /\ StepOutcome(ip, vcs) = "new"
        /\ ResolveStep(ip, vcs)

NextResolver ==
    \/ ResolveCall
    \/ ResolveAdded
    \/ ResolveUnresolved
    \/ ResolveOwn
    \/ ResolveAborts
    \/ ResolveNew

SpecResolver == InitResolver /\ [][NextResolver]_vars

\* ------------------------------------------------------------------ reference traversal

RECURSIVE SetToSortedSeq(_)
\* The elements of S in increasing string order.
SetToSortedSeq(S) ==
    IF S = {} THEN <<>>
    ELSE LET m == CHOOSE x \in S : \A y \in S \ {x} : LexLess(x, y)
         IN  <<m>> \o SetToSortedSeq(S \ {m})

RECURSIVE Canon(_, _, _)
\* The handler calls of a breadth-first run from the given queue and visited
\* set in which siblings are taken in increasing string order, as determined
\* by the callbacks' outcomes alone (hOut, rOut).
Canon(queue, vis, acc) ==
    IF queue = <<>> \/ Len(acc) >= MaxHandled THEN acc
    ELSE LET p == Head(queue)
             vis1 == vis \cup {p}
             acc1 == Append(acc, p)
         IN  IF hOut[p] = "skip" THEN Canon(Tail(queue), vis1, acc1)
             ELSE IF hOut[p] = "ok" /\ rOut[p].st = "ok"
                  THEN Canon(Tail(queue) \o SetToSortedSeq(rOut[p].kids \ vis1), vis1, acc1)
                  ELSE acc1

RECURSIVE ReachFrom(_, _)
\* The nodes reachable from the frontier along the reader's edges.
ReachFrom(frontier, seen) ==
    IF frontier \subseteq seen THEN seen
    ELSE ReachFrom(UNION {rOut[n].kids : n \in frontier}, seen \cup frontier)

Last(seq) == seq[Len(seq)]

\* seq is in increasing string order (equal neighbours allowed).
IsSorted(seq) == \A i \in 1..(Len(seq) - 1) : ~LexLess(seq[i + 1], seq[i])

\* A loop iteration: the handler has just been called.
HandlerCalled == pc = "running" /\ handled' # handled

\* The loop iterations of a running call are always taken: the call is one
\* sequential function.
SpecWalkerLive ==
    /\ InitWalker
    /\ [][NextWalker]_vars
    /\ WF_vars(StepSkip \/ StepHandlerError \/ StepReadError \/ StepExpand)

\* ------------------------------------------------------------------ claims on the walker

\* A first call on a fresh walker has returned nil and no handler call skipped.
FirstCallCompleted ==
    /\ pc = "done"
    /\ calls = 1
    /\ ret = NoError
    /\ \A n \in Range(handled) : hOut[n] = "ok"

\* C1: one call of TraverseDependencies on a fresh walker invokes the handler
\* exactly once for each node reachable from the start node, however often
\* the node is reachable as a child.
C1_HandledExactlyOnce ==
    FirstCallCompleted => \A n \in ReachFrom({pkg}, {}) : Count(handled, n) = 1

\* C2: over any sequence of TraverseDependencies calls on one walker, each
\* import path is handled at most once.
C2_HandledAtMostOnce == \A n \in Nodes : handleCount[n] <= 1

\* C3: when the handler returns ErrorSkip for a node, that iteration calls
\* no reader and enqueues nothing, and the call does not return an error:
\* it goes on with the rest of the queue.
C3_SkipReadsNoChildren ==
    [][(HandlerCalled /\ lastErr' = ErrorSkip)
        => /\ reads' = reads
           /\ enqueued' = <<>>
           /\ nodeQueue' = Tail(nodeQueue)
           /\ ret' = NoError
           /\ (nodeQueue' # <<>> => pc' = "running")]_vars

\* A node was skipped and the traversal went on to handle the next queued node.
C3_Witness ==
    /\ Len(handled) >= 2
    /\ hOut[handled[Len(handled) - 1]] = "skip"
    /\ reads = <<handled[1]>>

\* C4: the children a reader returns are enqueued in increasing string order
\* whatever order they were returned in, so the handler calls of a call are
\* those of the reference traversal, which the callbacks' outcomes determine.
C4_SortedEnqueue ==
    /\ IsSorted(enqueued)
    /\ Range(enqueued) = Range(children) \ visited
    /\ (pc = "done" => handled = Canon(queue0, visited0, <<>>))

\* The reader returned children out of string order and two or more of
\* them were enqueued.
C4_Witness ==
    /\ Len(children) >= 2
    /\ ~IsSorted(children)
    /\ Len(enqueued) >= 2
    /\ pc = "running"

\* C5: when the handler returns an error other than ErrorSkip, the call
\* returns exactly that error, without calling the reader for the node and
\* without handling any node still queued; no handler runs outside a call.
C5_HandlerErrorAborts ==
    [][/\ (HandlerCalled /\ lastErr' \notin {NoError, ErrorSkip})
            => /\ pc' = "done"
               /\ ret' = lastErr'
               /\ ret' = HandlerError(Head(nodeQueue))
               /\ reads' = reads
               /\ nodeQueue' = Tail(nodeQueue)
       /\ pc # "running" => handleCount' = handleCount /\ reads' = <<>>]_vars

\* A handler error ended a call while nodes were still queued.
C5_Witness ==
    /\ pc = "done"
    /\ ret.kind = "handler"
    /\ nodeQueue # <<>>
    /\ Len(handled) >= 2

\* C6: when the reader fails for node n, the call returns a wrapped error
\* that names n, also when n is not the start node.
C6_ReadErrorNamesNode ==
    (pc = "done" /\ ret.kind = "cantReadDeps") => ret.pkg = Last(reads)

\* C7: every call of TraverseDependencies returns: from some point on no
\* call is running (at most MaxCalls calls are made).
C7_Terminates == <>[](pc # "running")

\* A call returned nil after a node was enqueued, and handled, twice.
C7_Witness ==
    /\ pc = "done"
    /\ ret = NoError
    /\ \E n \in Nodes : Count(handled, n) >= 2

\* ------------------------------------------------------------------ claims on the fetch/update driver

\* What the package reader found for import path x.
DirectImports(x) == pkgSrc[PackageSource(Gopath, x)].kids

\* The record stored for ip before a step, an empty one when there is none.
Recorded(ip) == IF ip \in DOMAIN deps THEN deps[ip] ELSE NewDependency(ip)

\* C8: adding a Dependency for an import path already present merges by
\* union: whatever the order of addition, the handler leaves one record per
\* import path, keyed by it, whose Imports and ImportedFrom are the old sets
\* together with the added ones, and nothing recorded before is lost.
C8_MergeIsUnion ==
    [][(HandlerCalled /\ lastErr' = NoError)
        => LET p == Head(nodeQueue)
               found == pkgSrc'[PackageSource(Gopath, p)].kids
           IN  /\ DOMAIN deps' = DOMAIN deps \cup found \cup {p}
               /\ \A ip \in DOMAIN deps' :
                    /\ deps'[ip].ImportPath = ip
                    /\ deps'[ip].Imports =
                         Recorded(ip).Imports \cup (IF ip = p THEN found ELSE {})
                    /\ deps'[ip].ImportedFrom =
                         Recorded(ip).ImportedFrom \cup (IF ip \in found THEN {p} ELSE {})]_vars

\* A package recorded as imported from two packages is handled and its own
\* imports are merged into the record.
C8_Witness ==
    \E ip \in DOMAIN deps :
        /\ Cardinality(deps[ip].ImportedFrom) >= 2
        /\ deps[ip].Imports # {}
        /\ ip \notin deps[ip].Imports

\* C9: after a first Fetch/Update traversal that returned nil, every recorded
\* package is imported from exactly the handled packages that import it,
\* every handled package's Imports are its direct imports, and for "a"
\* importing "a/b" and "b" with "a/b" importing "b" the handler calls are
\* "a", "a/b", "b", once each.
C9_GraphAndOrder ==
    (pc = "done" /\ calls = 1 /\ ret = NoError)
        => /\ \A y \in DOMAIN deps :
                deps[y].ImportedFrom = {x \in Range(handled) : y \in DirectImports(x)}
           /\ \A x \in Range(handled) :
                x \in DOMAIN deps /\ deps[x].Imports = DirectImports(x)
           /\ (/\ pkg = NodeA
               /\ DirectImports(NodeA) = {NodeAB, NodeB}
               /\ DirectImports(NodeAB) = {NodeB}
               /\ DirectImports(NodeB) = {})
                => handled = <<NodeA, NodeAB, NodeB>>

\* C10: when the handler's path is a plain file, it returns the
\* not-a-directory error having only stat'ed the path (no resolve, no
\* create, no read of imports), leaves the Dependencies as they were, and
\* the traversal returns that error.
C10_FileIsNotAPackage ==
    [][(HandlerCalled /\ disk'[PackageSource(Gopath, Head(nodeQueue))] = "file")
        => /\ lastErr' = NotADirectory(PackageSource(Gopath, Head(nodeQueue)), Head(nodeQueue))
           /\ ops' = <<"stat">>
           /\ deps' = deps
           /\ reads' = reads
           /\ pc' = "done"
           /\ ret' = lastErr']_vars

\* A traversal that had recorded packages was aborted at a plain file.
C10_Witness ==
    /\ pc = "done"
    /\ ret.kind = "notADirectory"
    /\ Len(handled) >= 2
    /\ DOMAIN deps # {}
    /\ ops = <<"stat">>

\* ------------------------------------------------------------------ snapshot driver claims

\* C11: when SavePackageDeps reads a directory and the package reader returns
\* no imports and a "no buildable" PackageError, the Dependencies are left as
\* they were, the handler returns nil, and the walker goes on to read the
\* directory's children.
C11_NoBuildableRecordsNothing ==
    [][(/\ HandlerCalled
        /\ "read" \in Range(ops')
        /\ pkgSrc'[Head(nodeQueue)] = [st |-> "noBuildable", kids |-> {}])
       => (/\ deps' = deps
           /\ lastErr' = NoError
           /\ reads' = Append(reads, Head(nodeQueue)))]_vars

\* An empty directory of the project has been handled: nothing is recorded
\* for it, and the traversal goes on with its subdirectory.
C11_Witness ==
    /\ handled = <<SaveRoot>>
    /\ ops = <<"stat", "read">>
    /\ pkgSrc[SaveRoot] = [st |-> "noBuildable", kids |-> {}]
    /\ deps = NewDependencies
    /\ lastErr = NoError
    /\ pc = "running"
    /\ nodeQueue = <<PackageSource(Gopath, NodeAB)>>

\* C12: in a snapshot traversal the handler has only ever returned nil or
\* ErrorSkip, and an error returned by TraverseDependencies is a failure of
\* PackagePaths (the wrapped reader error).
C12_OnlyListingAborts ==
    /\ lastErr \in {NoError, ErrorSkip}
    /\ ret = NoError \/ ret.kind = "cantReadDeps"

\* C20: after SavePackageDeps was given a path with no import path, it has
\* returned ErrorSkip, a Dependency carrying an error is recorded, the
\* children of the path were not read and TraverseDependencies has not
\* returned an error.
C20_UnnamedPathSkipped ==
    (handled # <<>> /\ ~PackageName(Gopath, Last(handled)).ok)
    => (/\ lastErr = ErrorSkip
        /\ \E ip \in DOMAIN deps : deps[ip].Err # NoError
        /\ Last(handled) \notin Range(reads)
        /\ ret = NoError)

\* The path handled last suffered a node-local error: os.Stat found a file,
\* nothing or failed, or the package reader failed with an error other than
\* "no buildable".
NodeLocalError ==
    /\ handled # <<>>
    /\ PackageName(Gopath, Last(handled)).ok
    /\ \/ ops = <<"stat">> /\ disk[Last(handled)] \in {"file", "missing", "staterr"}
       \/ ops = <<"stat", "read">> /\ pkgSrc[Last(handled)].st \in {"pkgError", "error"}

\* C21: once SavePackageDeps has returned for a package with a node-local
\* error, the Dependency recorded for the package carries an error (also
\* when a record existed before), TraverseDependencies has not returned an
\* error other than a failure to list the package's subdirectories, and
\* nothing was enqueued on the package's account.
C21_NodeLocalErrorRecorded ==
    NodeLocalError
    => LET path == Last(handled)
           p == PackageName(Gopath, path).name
       IN  /\ p \in DOMAIN deps
           /\ deps[p].Err # NoError
           /\ ret \in {NoError, ReadFailure(pkg, path, ListingError(path))}
           /\ enqueued = <<>>

\* ------------------------------------------------------------------ fetch/update driver claims

\* C18: with the fetch/update driver, whenever the walker calls the reader
\* for a node, the handler has just returned nil and the node has a record;
\* PackageImports does not fail, and what it returns is the Imports of that
\* record.
C18_ReadsRecordedNode ==
    [][(HandlerCalled /\ reads' # reads)
       => (/\ lastErr' = NoError
           /\ Head(nodeQueue) \in DOMAIN deps'
           /\ ret' = NoError
           /\ Range(children') = deps'[Head(nodeQueue)].Imports)]_vars

\* The reader has returned the two imports recorded for the start package.
C18_Witness ==
    /\ reads = <<NodeA>>
    /\ NodeA \in DOMAIN deps
    /\ deps[NodeA].Imports = {NodeAB, NodeB}
    /\ Range(children) = {NodeAB, NodeB}
    /\ ret = NoError

\* The declared dependencies whose Root contains p, by position.
Containing(cd, p) == {i \in 1..Len(cd) : PathIsChild(cd[i].Root, p)}

\* C19: a FetchUpdatePackage call resolves the repository exactly when
\* nothing exists at the package's path, and creates it exactly when the
\* resolution then succeeds, each at most once; the hint passed is the first
\* declared dependency whose Root contains the import path, or none; and
\* when resolving or creating fails the call returns an error and the
\* Dependencies are as before.
C19_FetchOnlyWhenMissing ==
    [][handled' # handled
       => LET p == Last(handled')
              missing == disk[PackageSource(Gopath, p)] = "missing"
              hits == Containing(cdeps, p)
          IN  /\ "resolve" \in Range(ops') <=> missing
              /\ "create" \in Range(ops') <=> (missing /\ lastErr'.kind # "versionControl")
              /\ Count(ops', "resolve") <= 1
              /\ Count(ops', "create") <= 1
              /\ hint' = IF missing /\ hits # {}
                         THEN <<cdeps[CHOOSE i \in hits : \A j \in hits : i <= j]>>
                         ELSE <<>>
              /\ lastErr'.kind \in {"versionControl", "cantFetch"}
                    => (missing /\ deps' = deps /\ "readDeps" \notin Range(ops'))
              /\ (missing /\ lastErr' = NoError)
                    => ops' = <<"stat", "resolve", "create", "readDeps">>]_vars

\* A missing package a/b has been fetched with the first of two declared
\* dependencies that contain it, after another package was recorded.
C19_Witness ==
    /\ Len(handled) = 2
    /\ Last(handled) = NodeAB
    /\ deps # NewDependencies
    /\ cdeps = <<[Root |-> NodeA], [Root |-> NodeAB]>>
    /\ hint = <<[Root |-> NodeA]>>
    /\ ops = <<"stat", "resolve", "create", "readDeps">>
    /\ lastErr = NoError
    /\ disk[PackageSource(Gopath, NodeAB)] = "dir"

\* ------------------------------------------------------------------ source consolidation claims

\* ResolveSources has returned sources and no error.
Resolved == rpc = "returned" /\ rret.err = NoError

\* The entries of the graph that belong to the repository rooted at r.
DepsOf(r) == {ip \in DOMAIN graph : RepoRoot(repos, ip) = r}

\* The directory of the repository rooted at root is the save root or
\* contains it.
AtOrAboveSaveRoot(root) ==
    LET dir == PackageSource(Gopath, root)
    IN  dir = rootPath \/ HasPrefix(rootPath, dir \o <<47>>)

\* C13: when ResolveSources has returned, no two sources have the same
\* Root, and every repository that two or more entries of the graph belong
\* to, and that is not the project's own, has a source whose Deps holds all
\* of those entries.
C13_OneSourcePerRoot ==
    Resolved =>
        /\ \A i, j \in 1..Len(rret.sources) :
                rret.sources[i].Root = rret.sources[j].Root => i = j
        /\ \A r \in repos :
                (Cardinality(DepsOf(r)) >= 2 /\ ~AtOrAboveSaveRoot(r))
                => \E i \in 1..Len(rret.sources) :
                        /\ rret.sources[i].Root = r
                        /\ DepsOf(r) \subseteq DOMAIN rret.sources[i].Deps

\* C14: no source, during the pass or in its result, has a Root whose
\* directory is the save root or contains it, and no entry of the graph
\* whose repository is at or above the save root is in the Deps of a source.
C14_NoSourceAtSaveLevel ==
    \A srcs \in {sources, rret.sources} : \A i \in 1..Len(srcs) :
        /\ ~AtOrAboveSaveRoot(srcs[i].Root)
        /\ \A ip \in DOMAIN graph :
              (RepoRoot(repos, ip) # <<>> /\ AtOrAboveSaveRoot(RepoRoot(repos, ip)))
              => ip \notin DOMAIN srcs[i].Deps

\* The project is saved at a/b, inside the repository rooted at a; the
\* graph's entries a and a/b were skipped and b has its source.
C14_Witness ==
    /\ Resolved
    /\ rootPath = PackageSource(Gopath, NodeAB)
    /\ repos = {NodeA, NodeB}
    /\ DOMAIN graph = {NodeA, NodeAB, NodeB}
    /\ Len(rret.sources) = 1
    /\ rret.sources[1].Root = NodeB
    /\ DOMAIN rret.sources[1].Deps = {NodeB}

\* C15: the Root of every source, during the pass and in its result, is a
\* prefix of the import path of every Dependency in its Deps.
C15_RootPrefixesDeps ==
    \A srcs \in {sources, rret.sources} : \A i \in 1..Len(srcs) :
        \A ip \in DOMAIN srcs[i].Deps :
            /\ HasPrefix(ip, srcs[i].Root)
            /\ srcs[i].Deps[ip].ImportPath = ip

\* The source rooted at a was created for a/b/c and a/b was added to it.
C15_Witness ==
    /\ Resolved
    /\ \E i \in 1..Len(rret.sources) :
          /\ rret.sources[i].Root = NodeA
          /\ DOMAIN rret.sources[i].Deps = {NodeAB, NodeABC}

\* C16: an iteration in which ResolveRepo fails leaves the sources as they
\* are and the pass goes on, or returns them when the entry was the last;
\* an iteration in which GetRev or GetSource fails makes ResolveSources
\* return an error and no sources.
C16_ResolveFailureSkips ==
    [][(rpc = "resolving" /\ todo' # todo)
       => /\ <<"ResolveRepo", FALSE>> \in Range(vops')
                => /\ sources' = sources
                   /\ rret'.err = NoError
                   /\ IF todo' = {} THEN rpc' = "returned" /\ rret'.sources = sources
                                    ELSE rpc' = "resolving"
          /\ (<<"GetRev", FALSE>> \in Range(vops') \/ <<"GetSource", FALSE>> \in Range(vops'))
                => /\ rpc' = "returned"
                   /\ rret'.err.kind \in {"cantGetRevision", "cantGetSource"}
                   /\ rret'.sources = <<>>]_vars

\* After a source was built, an entry could not be resolved and the pass
\* goes on with the source kept.
C16_Witness ==
    /\ rpc = "resolving"
    /\ vops = <<<<"ResolveRepo", FALSE>>>>
    /\ Len(sources) = 1
    /\ todo # {}

\* The Roots of the sources, each with the import paths in its Deps.
Membership(srcs) == {<<srcs[i].Root, DOMAIN srcs[i].Deps>> : i \in 1..Len(srcs)}

\* C17: the sources ResolveSources has returned have the same Roots, each
\* with the same import paths in its Deps, as the sources it returns for
\* any other order of the graph's entries.
C17_OrderIndependent ==
    Resolved =>
        \A order \in Slices(DOMAIN graph) :
            Membership(ResolveAll(<<>>, graph, order, repos, rootPath, branches))
                = Membership(rret.sources)

\* ------------------------------------------------------------------ recorded revisions

\* This loop iteration appends a source.
SourceCreated == Len(sources') = Len(sources) + 1

\* C22: every source holds exactly its on-disk revision and its on-disk
\* remote source.  The source a loop iteration creates records the branch
\* when sr.Branches is set and GetBranch succeeded, and otherwise the exact
\* revision; GetBranch is asked only when sr.Branches is set, and a pass
\* aborts only on a failed GetRev or GetSource.
C22_OneRevisionOneSource ==
    /\ [](\A i \in 1..Len(sources) :
            /\ sources[i].Revisions = {sources[i].OnDiskRevision}
            /\ sources[i].Sources = {sources[i].OnDiskSource}
            /\ sources[i].OnDiskSource = Source(sources[i].Root)
            /\ sources[i].OnDiskRevision \in {Branch(sources[i].Root), Rev(sources[i].Root)})
    /\ [][/\ SourceCreated
             => LET s == sources'[Len(sources')]
                    byBranch == branches /\ <<"GetBranch", TRUE>> \in Range(vops')
                IN  /\ s.OnDiskRevision = IF byBranch THEN Branch(s.Root) ELSE Rev(s.Root)
                    /\ byBranch \/ <<"GetRev", TRUE>> \in Range(vops')
                    /\ <<"GetSource", TRUE>> \in Range(vops')
                    /\ \A j \in 1..Len(sources) : sources'[j] = sources[j]
          /\ (\E ok \in BOOLEAN : <<"GetBranch", ok>> \in Range(vops')) => branches
          /\ (rpc = "resolving" /\ rret'.err # NoError)
             => (<<"GetRev", FALSE>> \in Range(vops') \/ <<"GetSource", FALSE>> \in Range(vops'))
          /\ (rpc = "resolving" /\ Len(sources') = Len(sources))
             => \A j \in 1..Len(sources) :
                    /\ sources'[j].Revisions = sources[j].Revisions
                    /\ sources'[j].OnDiskRevision = sources[j].OnDiskRevision
                    /\ sources'[j].Sources = sources[j].Sources
                    /\ sources'[j].OnDiskSource = sources[j].OnDiskSource]_vars

\* With branches enabled, GetBranch failed for the repository of the entry
\* reached last and the pass went on: the new source records the exact
\* revision.
C22_Witness ==
    /\ branches
    /\ rpc \in {"resolving", "returned"}
    /\ rret.err = NoError
    /\ vops = <<<<"ResolveRepo", TRUE>>, <<"GetBranch", FALSE>>,
                <<"GetRev", TRUE>>, <<"GetSource", TRUE>>>>
    /\ sources # <<>>
    /\ LET s == sources[Len(sources)]
       IN  /\ s.Root = RepoRoot(repos, rlast)
           /\ s.OnDiskRevision = Rev(s.Root)
           /\ s.Revisions = {Rev(s.Root)}
           /\ s.Sources = {Source(s.Root)}

====
